---- MODULE Spec2Model ----
(***************************************************************************)
(* A model of rust_chat: the WebSocket frame codec of src/src/frame.rs and *)
(* the single-threaded mio event loop of src/src/main.rs.                  *)
(*                                                                         *)
(* Two specifications share the module:                                    *)
(*   CodecSpec  builds, writes and reads frames (frame.rs);                *)
(*   Spec       runs the listener, the registry and the client reads       *)
(*              (main.rs).                                                 *)
(* Option<T> is modelled as a sequence: << >> is None, <<x>> is Some(x);    *)
(* Option<[u8; 4]> is << >> or the four bytes.                             *)
(***************************************************************************)
EXTENDS Integers, Sequences, FiniteSets, TLC

(***************************************************************************)
(* Bounds of the model.                                                    *)
(***************************************************************************)
\* payload lengths 0..MaxLen are explored next to the tier lengths
MaxLen == 5
\* payload contents: byte i of the payload with seed s is (s + i) mod m
MaxSeed == 1
\* fills of the bytes that read_payload leaves uninitialised
MaxJunk == 1
\* chunk boundaries 0..MaxCut (and the last byte) at which a partial read ends
MaxCut == 11
\* frames returned by read that are written again
MaxEcho == 1
\* connections that reach the listening socket
MaxConn == 2
\* segments the peers send, on all connections together
MaxSegs == 3

(***************************************************************************)
(* Program constants.                                                      *)
(***************************************************************************)
FRAME_LEN_U16 == 126
FRAME_LEN_U64 == 127
U16_MAX == 65535
OpTextFrame == 1
OpBinaryFrame == 2
OpConnectionClose == 8
OpPing == 9
OpPong == 10

(***************************************************************************)
(* Bytes and fixed-width integers.                                         *)
(***************************************************************************)
Min(a, b) == IF a < b THEN a ELSE b

\* bit k of v
Bit(v, k) == (v \div (2 ^ k)) % 2

\* a ^ b on u8
Xor(a, b) ==
    LET x(k) == ((Bit(a, k) + Bit(b, k)) % 2) * (2 ^ k)
    IN  x(0) + x(1) + x(2) + x(3) + x(4) + x(5) + x(6) + x(7)

\* write_u16::<BigEndian>
U16BE(v) == << (v \div 256) % 256, v % 256 >>

\* write_u64::<BigEndian>; the lengths of the model are below 2^31, so the four
\* high bytes are zero
U64BE(v) ==
    << 0, 0, 0, 0, (v \div 16777216) % 256, (v \div 65536) % 256,
       (v \div 256) % 256, v % 256 >>

\* read_u16 / read_u64::<BigEndian> of the bytes b (Horner)
RECURSIVE BEValue(_)
BEValue(b) ==
    IF Len(b) = 0 THEN 0
    ELSE BEValue(SubSeq(b, 1, Len(b) - 1)) * 256 + b[Len(b)]

(***************************************************************************)
(* WebSocketFrameHeader                                                    *)
(***************************************************************************)
determine_len(len) ==
    IF len < FRAME_LEN_U16 THEN len
    ELSE IF len < U16_MAX THEN FRAME_LEN_U16
    ELSE FRAME_LEN_U64

new_header(len, opcode) ==
    [ fin |-> TRUE, rsv1 |-> FALSE, rsv2 |-> FALSE, rsv3 |-> FALSE,
      masked |-> FALSE, payload_length |-> determine_len(len),
      opcode |-> opcode ]

B2N(b) == IF b THEN 1 ELSE 0

\* the bit fields are disjoint, so | is +
serialize_header(hdr) ==
    LET b1 == B2N(hdr.fin) * 128 + B2N(hdr.rsv1) * 64 + B2N(hdr.rsv2) * 32
              + B2N(hdr.rsv3) * 16 + (hdr.opcode % 16)
        b2 == B2N(hdr.masked) * 128 + (hdr.payload_length % 128)
    IN  b1 * 256 + b2

parse_header(buf) ==
    LET hi == buf \div 256
        lo == buf % 256
    IN  [ fin |-> Bit(hi, 7) = 1, rsv1 |-> Bit(hi, 6) = 1,
          rsv2 |-> Bit(hi, 5) = 1, rsv3 |-> Bit(hi, 4) = 1,
          opcode |-> hi % 16,
          masked |-> Bit(buf, 7) = 1,
          payload_length |-> lo % 128 ]

(***************************************************************************)
(* WebSocketFrame                                                          *)
(***************************************************************************)
FromBytes(payload) ==
    [ header |-> new_header(Len(payload), OpBinaryFrame),
      payload |-> payload, mask |-> << >> ]

\* From<&str> building the frame with the opcode of From<&[u8]>
FromStr_binary(payload) ==
    [ header |-> new_header(Len(payload), OpBinaryFrame),
      payload |-> payload, mask |-> << >> ]

FromStr(payload) ==
    [ header |-> new_header(Len(payload), OpTextFrame),
      payload |-> payload, mask |-> << >> ]

\* write with the two arms of the match exchanged
write_length_swapped(frame) ==
    IF frame.header.payload_length = FRAME_LEN_U64
      THEN U16BE(Len(frame.payload) % 65536)
    ELSE IF frame.header.payload_length = FRAME_LEN_U16
      THEN U64BE(Len(frame.payload))
    ELSE << >>

\* the extended length that write puts after the two header bytes
write_length(frame) ==
    IF frame.header.payload_length = FRAME_LEN_U16
      THEN U16BE(Len(frame.payload) % 65536)
    ELSE IF frame.header.payload_length = FRAME_LEN_U64
      THEN U64BE(Len(frame.payload))
    ELSE << >>

\* WebSocketFrame::write into a Vec<u8>, which takes every byte
write(frame) ==
    U16BE(serialize_header(frame.header)) \o write_length(frame) \o frame.payload

\* apply_mask with the key indexed one byte off
apply_mask_off(mask, bytes) ==
    [ idx \in 1 .. Len(bytes) |-> Xor(bytes[idx], mask[(idx % 4) + 1]) ]

apply_mask(mask, bytes) ==
    [ idx \in 1 .. Len(bytes) |-> Xor(bytes[idx], mask[((idx - 1) % 4) + 1]) ]

\* The reader: the bytes it can deliver now (data, from position pos + 1) and
\* what a read finds behind them: "eof" (a slice or a closed stream: Ok(0)) or
\* "wouldblock" (a non-blocking socket: Err).
\* read_exact of n bytes, as read_u16 and read_u64 do
read_exact_ok(data, pos, n) == Len(data) - pos >= n

EndError(end) == IF end = "eof" THEN "UnexpectedEof" ELSE "WouldBlock"

\* one Read::read into a buffer of n bytes: the number of bytes it delivers, or
\* -1 for Err
read_once(data, pos, n, end) ==
    IF n = 0 THEN 0
    ELSE IF Len(data) - pos > 0 THEN Min(n, Len(data) - pos)
    ELSE IF end = "eof" THEN 0
    ELSE -1

read_length(payload_len, data, pos, end) ==
    LET n == IF payload_len = FRAME_LEN_U64 THEN 8
             ELSE IF payload_len = FRAME_LEN_U16 THEN 2 ELSE 0
    IN  IF n = 0 THEN [ ok |-> TRUE, len |-> payload_len, pos |-> pos ]
        ELSE IF read_exact_ok(data, pos, n)
          THEN [ ok |-> TRUE, len |-> BEValue(SubSeq(data, pos + 1, pos + n)),
                 pos |-> pos + n ]
        ELSE [ ok |-> FALSE, len |-> 0, pos |-> Len(data) ]

\* buf = [0; 4]; input.read(&mut buf): a short read leaves the zeros
read_mask(data, pos, end) ==
    LET k == read_once(data, pos, 4, end)
    IN  IF k < 0 THEN [ ok |-> FALSE, mask |-> << >>, pos |-> pos ]
        ELSE [ ok |-> TRUE,
               mask |-> [ i \in 1 .. 4 |-> IF i <= k THEN data[pos + i] ELSE 0 ],
               pos |-> pos + k ]

\* byte i of a buffer that set_len exposed without writing it
Uninit(junk, i) == IF junk = 0 THEN 0 ELSE (junk + i) % 256

\* Vec::with_capacity(len); set_len(len); input.read(&mut payload): a short
\* read leaves the rest of the vector uninitialised
read_payload(payload_len, data, pos, end, junk) ==
    LET k == read_once(data, pos, payload_len, end)
    IN  IF k < 0 THEN [ ok |-> FALSE, payload |-> << >>, pos |-> pos ]
        ELSE [ ok |-> TRUE,
               payload |-> [ i \in 1 .. payload_len |->
                               IF i <= k THEN data[pos + i] ELSE Uninit(junk, i) ],
               pos |-> pos + k ]

Failed(error, pos) ==
    [ ok |-> FALSE, error |-> error, frame |-> << >>, consumed |-> pos ]

\* WebSocketFrame::read
read(data, end, junk) ==
    IF ~ read_exact_ok(data, 0, 2) THEN Failed(EndError(end), Len(data))
    ELSE
    LET header == parse_header(data[1] * 256 + data[2])
        l == read_length(header.payload_length, data, 2, end)
    IN  IF ~ l.ok THEN Failed(EndError(end), l.pos)
        ELSE
        LET m == IF header.masked THEN read_mask(data, l.pos, end)
                 ELSE [ ok |-> TRUE, mask |-> << >>, pos |-> l.pos ]
        IN  IF ~ m.ok THEN Failed("WouldBlock", m.pos)
            ELSE
            LET p == read_payload(l.len, data, m.pos, end, junk)
            IN  IF ~ p.ok THEN Failed("WouldBlock", p.pos)
                ELSE [ ok |-> TRUE, error |-> "",
                       frame |-> << [ header |-> header,
                                      payload |-> IF header.masked
                                                    THEN apply_mask(m.mask, p.payload)
                                                    ELSE p.payload,
                                      mask |-> m.mask ] >>,
                       consumed |-> p.pos ]

(***************************************************************************)
(* State.                                                                  *)
(***************************************************************************)
VARIABLES
    \* frame.rs: one frame through From, write and read
    cpc,        \* "idle", "built", "written", "input", "done"
    arg,        \* the argument of From: [kind, payload]
    frame,      \* Option<WebSocketFrame>
    output,     \* the Vec<u8> that write filled
    input,      \* the reader given to read: [data, end, whole]
    sent,       \* the frame a peer put on the wire, if the input is a peer's
    result,     \* what read returned
    echoes,     \* how many frames returned by read were written again
    \* main.rs: the event loop, the registry and the sockets
    spc,            \* where the thread is: "wait" (in EventLoop::run, between
                    \* callbacks), "read" (in WebSocketClient::read), "panic"
    cur,            \* the token whose client is being read
    token_counter,  \* WebSocketServer.token_counter
    clients,        \* WebSocketServer.clients: token -> WebSocketClient
    assigned,       \* the tokens given out by the accepts that succeeded
    registered,     \* the tokens registered with the event loop
    armed,          \* the registered tokens whose interest is armed
    events,         \* the tokens with a readiness event to deliver
    pending,        \* connections waiting in the listener's queue
    arrivals,       \* connections that reached the listener so far
    sock,           \* token -> the peer side of the socket
    outbound        \* token -> what the server wrote to the socket

codecVars == << cpc, arg, frame, output, input, sent, result, echoes >>

serverVars ==
    << spc, cur, token_counter, clients, assigned, registered, armed, events,
       pending, arrivals, sock, outbound >>

vars == << codecVars, serverVars >>

(***************************************************************************)
(* Inputs of the codec.                                                    *)
(***************************************************************************)
\* the lengths at which determine_len changes tier, and the ones around them
TierLens == { 125, 126, 127, 65535, 65536, 70000 }

Pattern(n, seed, m) == [ i \in 1 .. n |-> (seed * 101 + i * 7) % m ]

\* a &str is UTF-8: the text payloads are ASCII
TextPayloads ==
    { Pattern(n, s, 128) : n \in 0 .. MaxLen, s \in 0 .. MaxSeed }
      \cup { Pattern(n, 0, 128) : n \in TierLens }

BinaryPayloads ==
    { Pattern(n, s, 256) : n \in 0 .. MaxLen, s \in 0 .. MaxSeed }
      \cup { Pattern(n, 0, 256) : n \in TierLens }

SmallPayloads == { Pattern(n, 1, 256) : n \in { 0, 1, MaxLen } }

\* where the bytes deliverable by the first reads end
Cuts(bytes) ==
    { c \in (0 .. MaxCut) \cup { Len(bytes) - 1, Len(bytes) } :
        c >= 0 /\ c <= Len(bytes) }

Reader(bytes, cut, end) ==
    [ data |-> SubSeq(bytes, 1, cut), end |-> end, whole |-> cut = Len(bytes) ]

\* The frames a peer sends: first byte (fin, rsv, opcode), mask bit, the tier of
\* the length encoding (the peer may use a longer encoding than needed), the
\* mask key and the payload bytes as they are on the wire.
PeerFirstBytes == { 129, 131, 136, 137, 138, 0, 65 }

PeerKeys == { << 0, 0, 0, 0 >>, << 55, 250, 33, 61 >> }

PeerLens == { 0, 1, MaxLen, 126 }

PeerPayloads == { Pattern(n, s, 256) : n \in PeerLens, s \in 0 .. MaxSeed }

PeerTiers == { 7, 16, 64 }

PeerWire(b1, masked, tier, key, raw) ==
    LET field == IF tier = 7 THEN Len(raw)
                 ELSE IF tier = 16 THEN FRAME_LEN_U16 ELSE FRAME_LEN_U64
        ext == IF tier = 7 THEN << >>
               ELSE IF tier = 16 THEN U16BE(Len(raw)) ELSE U64BE(Len(raw))
    IN  << b1, B2N(masked) * 128 + field >> \o ext
          \o (IF masked THEN key ELSE << >>) \o raw

(***************************************************************************)
(* main.rs: the state after main has built the server and registered the   *)
(* listening socket.                                                       *)
(***************************************************************************)
SERVER_TOKEN == 0

Empty == [ t \in { } |-> 0 ]

ServerInit ==
    /\ spc = "wait"
    /\ cur = SERVER_TOKEN
    /\ token_counter = 1
    /\ clients = Empty
    /\ assigned = << >>
    /\ registered = { SERVER_TOKEN }
    /\ armed = { SERVER_TOKEN }
    /\ events = { }
    /\ pending = 0
    /\ arrivals = 0
    /\ sock = Empty
    /\ outbound = Empty

NoArg == [ kind |-> "none", payload |-> << >> ]

NoInput == [ data |-> << >>, end |-> "eof", whole |-> FALSE ]

NoResult == Failed("", 0)

CodecIdle ==
    /\ cpc = "idle"
    /\ arg = NoArg
    /\ frame = << >>
    /\ output = << >>
    /\ input = NoInput
    /\ sent = << >>
    /\ result = NoResult
    /\ echoes = 0

CodecInit == CodecIdle /\ ServerInit

(***************************************************************************)
(* Actions of the codec.                                                   *)
(***************************************************************************)
\* WebSocketFrame::from(&str)
BuildText ==
    /\ cpc = "idle"
    /\ \E p \in TextPayloads :
        /\ arg' = [ kind |-> "str", payload |-> p ]
        /\ frame' = << FromStr(p) >>
    /\ cpc' = "built"
    /\ UNCHANGED << output, input, sent, result, echoes >>
    /\ UNCHANGED serverVars

\* WebSocketFrame::from(&[u8])
BuildBinary ==
    /\ cpc = "idle"
    /\ \E p \in BinaryPayloads :
        /\ arg' = [ kind |-> "bytes", payload |-> p ]
        /\ frame' = << FromBytes(p) >>
    /\ cpc' = "built"
    /\ UNCHANGED << output, input, sent, result, echoes >>
    /\ UNCHANGED serverVars

\* frame.payload = p: the payload field is pub, the header is not touched
SetPayload ==
    /\ cpc = "built"
    /\ arg.kind \in { "str", "bytes" }
    /\ \E p \in SmallPayloads :
        /\ p # frame[1].payload
        /\ frame' = << [ frame[1] EXCEPT !.payload = p ] >>
    /\ arg' = [ arg EXCEPT !.kind = "set" ]
    /\ UNCHANGED << cpc, output, input, sent, result, echoes >>
    /\ UNCHANGED serverVars

\* frame.write(&mut output)
Write ==
    /\ cpc = "built"
    /\ output' = write(frame[1])
    /\ cpc' = "written"
    /\ UNCHANGED << arg, frame, input, sent, result, echoes >>
    /\ UNCHANGED serverVars

\* the bytes written reach a reader, all of them or a first chunk
Deliver ==
    /\ cpc = "written"
    /\ \E cut \in Cuts(output), end \in { "eof", "wouldblock" } :
        /\ arg.kind = "read" => cut = Len(output)
        /\ input' = Reader(output, cut, end)
    /\ cpc' = "input"
    /\ UNCHANGED << arg, frame, output, sent, result, echoes >>
    /\ UNCHANGED serverVars

\* a peer's frame reaches a reader, all of it or a first chunk
PeerSend ==
    /\ cpc = "idle"
    /\ \E b1 \in PeerFirstBytes, masked \in BOOLEAN, tier \in PeerTiers,
          key \in PeerKeys, raw \in PeerPayloads :
        /\ tier = 7 => Len(raw) < FRAME_LEN_U16
        /\ ~ masked => key = << 0, 0, 0, 0 >>
        /\ LET wire == PeerWire(b1, masked, tier, key, raw)
           IN  /\ sent' = << [ b1 |-> b1, masked |-> masked, tier |-> tier,
                               key |-> key, raw |-> raw, wire |-> wire ] >>
               /\ \E cut \in Cuts(wire), end \in { "eof", "wouldblock" } :
                    input' = Reader(wire, cut, end)
    /\ cpc' = "input"
    /\ UNCHANGED << arg, frame, output, result, echoes >>
    /\ UNCHANGED serverVars

\* WebSocketFrame::read(&mut input)
Read ==
    /\ cpc = "input"
    /\ \E junk \in 0 .. MaxJunk : result' = read(input.data, input.end, junk)
    /\ cpc' = "done"
    /\ UNCHANGED << arg, frame, output, input, sent, echoes >>
    /\ UNCHANGED serverVars

\* a frame that read returned from all the bytes of its input is the next one
\* written
Echo ==
    /\ cpc = "done"
    /\ result.ok
    /\ input.whole
    /\ echoes < MaxEcho
    /\ frame' = result.frame
    /\ arg' = [ kind |-> "read", payload |-> result.frame[1].payload ]
    /\ echoes' = echoes + 1
    /\ cpc' = "built"
    /\ output' = << >>
    /\ input' = NoInput
    /\ result' = NoResult
    /\ UNCHANGED sent
    /\ UNCHANGED serverVars

CodecNext ==
    \/ BuildText
    \/ BuildBinary
    \/ SetPayload
    \/ Write
    \/ Deliver
    \/ PeerSend
    \/ Read
    \/ Echo

CodecSpec == CodecInit /\ [][CodecNext]_vars

(***************************************************************************)
(* main.rs: the peers and the network.                                     *)
(***************************************************************************)
NewSock == [ inbound |-> << >>, status |-> "open", segs |-> 0, upgraded |-> FALSE ]

RECURSIVE SegsSent(_)
SegsSent(T) ==
    IF T = { } THEN 0
    ELSE LET t == CHOOSE u \in T : TRUE
         IN  sock[t].segs + SegsSent(T \ { t })

\* a socket on which a read would not block
Readable(s) == Len(s.inbound) > 0 \/ s.status # "open"

\* the socket of token t became readable: an armed one-shot interest fires once
Fired(t) ==
    IF t \in armed
      THEN armed' = armed \ { t } /\ events' = events \cup { t }
      ELSE UNCHANGED << armed, events >>

\* a connection reaches the listening socket, registered edge-triggered: the
\* arrivals not yet delivered make one event
Connect ==
    /\ spc # "panic"
    /\ arrivals < MaxConn
    /\ arrivals' = arrivals + 1
    /\ pending' = pending + 1
    /\ events' = events \cup { SERVER_TOKEN }
    /\ UNCHANGED << spc, cur, token_counter, clients, assigned, registered,
                    armed, sock, outbound >>
    /\ UNCHANGED codecVars

\* a peer gives up before its connection is accepted
Abort ==
    /\ spc # "panic"
    /\ pending > 0
    /\ pending' = pending - 1
    /\ UNCHANGED << spc, cur, token_counter, clients, assigned, registered,
                    armed, events, arrivals, sock, outbound >>
    /\ UNCHANGED codecVars

\* The peer of t sends a segment, which one try_read delivers: "hdr" is a part
\* of the HTTP request, "upgrade" the part that completes the headers of an
\* upgrade request, "frame" bytes of WebSocket data frames after it, "close"
\* the bytes of a Close frame.
PeerData(t) ==
    /\ spc # "panic"
    /\ sock[t].status = "open"
    /\ SegsSent(DOMAIN sock) < MaxSegs
    /\ \E seg \in IF sock[t].upgraded THEN { "frame", "close" } ELSE { "hdr", "upgrade" } :
        sock' = [ sock EXCEPT ![t] =
                    [ @ EXCEPT !.inbound = Append(@, seg),
                               !.segs = @ + 1,
                               !.upgraded = @ \/ seg = "upgrade" ] ]
    /\ Fired(t)
    /\ UNCHANGED << spc, cur, token_counter, clients, assigned, registered,
                    pending, arrivals, outbound >>
    /\ UNCHANGED codecVars

\* the peer of t closes its side
PeerClose(t) ==
    /\ spc # "panic"
    /\ sock[t].status = "open"
    /\ sock' = [ sock EXCEPT ![t].status = "eof" ]
    /\ Fired(t)
    /\ UNCHANGED << spc, cur, token_counter, clients, assigned, registered,
                    pending, arrivals, outbound >>
    /\ UNCHANGED codecVars

\* the connection of t is reset: the bytes not yet read are gone
PeerReset(t) ==
    /\ spc # "panic"
    /\ sock[t].status = "open"
    /\ sock' = [ sock EXCEPT ![t].status = "error", ![t].inbound = << >> ]
    /\ Fired(t)
    /\ UNCHANGED << spc, cur, token_counter, clients, assigned, registered,
                    pending, arrivals, outbound >>
    /\ UNCHANGED codecVars

(***************************************************************************)
(* main.rs: WebSocketServer::ready and WebSocketClient::read.              *)
(***************************************************************************)
\* WebSocketClient::new; parses is the parity of the number of calls of
\* http_parser.parse, exit the way the last read of the client ended
NewClient == [ upgrade |-> FALSE, parses |-> 0, exit |-> "none" ]

\* HashMap::insert
Insert(map, k, v) ==
    [ t \in DOMAIN map \cup { k } |-> IF t = k THEN v ELSE map[t] ]

\* self.token_counter += 1 left out
next_token_same(counter) == counter

\* self.token_counter += 1
next_token(counter) == counter + 1

\* a register call that loses the socket
register_lost(regs, t) == regs

\* event_loop.register(socket, token, ...) returning Ok: the socket is one of
\* those the readiness source watches
register(regs, t) == regs \cup { t }

\* an accept branch that takes the next token before it looks at the result
AcceptError_counting ==
    /\ spc = "wait"
    /\ SERVER_TOKEN \in events
    /\ events' = events \ { SERVER_TOKEN }
    /\ token_counter' = token_counter + 1
    /\ UNCHANGED << spc, cur, clients, assigned, registered, armed, pending,
                    arrivals, sock, outbound >>
    /\ UNCHANGED codecVars

\* ready(SERVER_TOKEN), accept returns Err: the callback returns
AcceptError ==
    /\ spc = "wait"
    /\ SERVER_TOKEN \in events
    /\ events' = events \ { SERVER_TOKEN }
    /\ UNCHANGED << spc, cur, token_counter, clients, assigned, registered,
                    armed, pending, arrivals, sock, outbound >>
    /\ UNCHANGED codecVars

\* ready(SERVER_TOKEN), accept returns Ok(None): unreachable!
AcceptNone ==
    /\ spc = "wait"
    /\ SERVER_TOKEN \in events
    /\ pending = 0
    /\ events' = events \ { SERVER_TOKEN }
    /\ spc' = "panic"
    /\ UNCHANGED << cur, token_counter, clients, assigned, registered, armed,
                    pending, arrivals, sock, outbound >>
    /\ UNCHANGED codecVars

\* ready(SERVER_TOKEN), accept returns a socket: one accept for the event, the
\* next token, the insert, and register(...).unwrap()
AcceptReady ==
    /\ spc = "wait"
    /\ SERVER_TOKEN \in events
    /\ pending > 0
    /\ pending' = pending - 1
    /\ token_counter' = next_token(token_counter)
    /\ LET new_token == token_counter'
       IN  /\ clients' = Insert(clients, new_token, NewClient)
           /\ assigned' = Append(assigned, new_token)
           /\ sock' = Insert(sock, new_token, NewSock)
           /\ outbound' = Insert(outbound, new_token, << >>)
           /\ \/ /\ registered' = register(registered, new_token)
                 /\ armed' = armed \cup { new_token }
                 /\ spc' = "wait"
              \/ /\ spc' = "panic"
                 /\ UNCHANGED << registered, armed >>
    /\ events' = events \ { SERVER_TOKEN }
    /\ UNCHANGED << cur, arrivals >>
    /\ UNCHANGED codecVars

\* ready(token): self.clients.get_mut(&token).unwrap(), then client.read()
ClientReady(t) ==
    /\ spc = "wait"
    /\ t \in events
    /\ t # SERVER_TOKEN
    /\ t \in DOMAIN clients
    /\ events' = events \ { t }
    /\ spc' = "read"
    /\ cur' = t
    /\ UNCHANGED << token_counter, clients, assigned, registered, armed,
                    pending, arrivals, sock, outbound >>
    /\ UNCHANGED codecVars

\* client.read() has returned: event_loop.register(&client.socket, token,
\* readable, edge | oneshot).unwrap(). An interest armed on a socket that is
\* readable fires at once.
Rearm(t, s) ==
    \/ /\ spc' = "wait"
       /\ IF Readable(s)
            THEN events' = events \cup { t } /\ armed' = armed
            ELSE armed' = armed \cup { t } /\ events' = events
    \/ /\ spc' = "panic"
       /\ UNCHANGED << armed, events >>

\* http_parser.parse(&buf[0..len])
Parsed(c, seg) ==
    [ c EXCEPT !.parses = (@ + 1) % 2,
               !.upgrade = @ \/ seg = "upgrade" ]

\* try_read returns Err(e): println, return
ReadErr ==
    /\ spc = "read"
    /\ sock[cur].status = "error"
    /\ clients' = [ clients EXCEPT ![cur].exit = "error" ]
    /\ \E after \in { "error", "eof" } :
        sock' = [ sock EXCEPT ![cur].status = after ]
    /\ Rearm(cur, sock'[cur])
    /\ cur' = SERVER_TOKEN
    /\ UNCHANGED << token_counter, assigned, registered, pending, arrivals,
                    outbound >>
    /\ UNCHANGED codecVars

\* try_read returns Ok(Some(len)), len > 0: the bytes go to the HTTP parser;
\* break if it reports an upgrade, else the next turn of the loop
ReadData ==
    /\ spc = "read"
    /\ sock[cur].status # "error"
    /\ Len(sock[cur].inbound) > 0
    /\ clients' = [ clients EXCEPT ![cur] =
                      LET c == Parsed(@, Head(sock[cur].inbound))
                      IN  IF c.upgrade THEN [ c EXCEPT !.exit = "upgrade" ] ELSE c ]
    /\ sock' = [ sock EXCEPT ![cur].inbound = Tail(@) ]
    /\ IF clients'[cur].upgrade
         THEN Rearm(cur, sock'[cur]) /\ cur' = SERVER_TOKEN
         ELSE UNCHANGED << spc, cur, armed, events >>
    /\ UNCHANGED << token_counter, assigned, registered, pending, arrivals,
                    outbound >>
    /\ UNCHANGED codecVars

\* try_read returns Ok(Some(0)), the peer has closed: parse(&buf[0..0]); break
\* if the parser had reported an upgrade, else the next turn of the loop
ReadEof ==
    /\ spc = "read"
    /\ sock[cur].status = "eof"
    /\ Len(sock[cur].inbound) = 0
    /\ clients' = [ clients EXCEPT ![cur] =
                      LET c == Parsed(@, "")
                      IN  IF c.upgrade THEN [ c EXCEPT !.exit = "upgrade" ] ELSE c ]
    /\ IF clients'[cur].upgrade
         THEN Rearm(cur, sock[cur]) /\ cur' = SERVER_TOKEN
         ELSE UNCHANGED << spc, cur, armed, events >>
    /\ UNCHANGED << token_counter, assigned, registered, pending, arrivals,
                    sock, outbound >>
    /\ UNCHANGED codecVars

\* try_read returns Ok(None), nothing to read now: break
ReadWouldBlock ==
    /\ spc = "read"
    /\ sock[cur].status = "open"
    /\ Len(sock[cur].inbound) = 0
    /\ clients' = [ clients EXCEPT ![cur].exit = "wouldblock" ]
    /\ Rearm(cur, sock[cur])
    /\ cur' = SERVER_TOKEN
    /\ UNCHANGED << token_counter, assigned, registered, pending, arrivals,
                    sock, outbound >>
    /\ UNCHANGED codecVars

Init == ServerInit /\ CodecIdle

Next ==
    \/ Connect
    \/ Abort
    \/ \E t \in DOMAIN sock : PeerData(t)
    \/ \E t \in DOMAIN sock : PeerClose(t)
    \/ \E t \in DOMAIN sock : PeerReset(t)
    \/ AcceptError
    \/ AcceptNone
    \/ AcceptReady
    \/ \E t \in events : ClientReady(t)
    \/ ReadErr
    \/ ReadData
    \/ ReadEof
    \/ ReadWouldBlock

Spec == Init /\ [][Next]_vars

(***************************************************************************)
(* Properties of the codec (CodecSpec).                                    *)
(***************************************************************************)
\* a frame built by From and written unchanged
FromBuilt == arg.kind \in { "str", "bytes" }

ArgOpcode == IF arg.kind = "str" THEN OpTextFrame ELSE OpBinaryFrame

\* C1: a frame built by From from a payload of any length of the model (0, 1,
\* 125, 126, 65535, 65536 and 70000 among them), written by write and read back
\* from all the bytes written, is returned Ok with the payload and the opcode
\* that From was given.
RoundTrip ==
    (cpc = "done" /\ FromBuilt /\ input.whole) =>
        /\ result.ok
        /\ result.frame[1].payload = arg.payload
        /\ result.frame[1].header.opcode = ArgOpcode

RoundTripWitness ==
    /\ cpc = "done" /\ FromBuilt /\ input.whole
    /\ Len(arg.payload) = FRAME_LEN_U16
    /\ result.ok
    /\ result.frame[1].payload = arg.payload
    /\ result.frame[1].header.payload_length = FRAME_LEN_U16
    /\ result.consumed = Len(output)

\* C2: write puts a payload of 125 bytes behind a 7-bit field of 125 with no
\* extension bytes, one of 126 bytes behind the sentinel 126 and the two bytes
\* 0, 126, and one of 65536 bytes behind the sentinel 127 and the eight bytes
\* 0, 0, 0, 0, 0, 1, 0, 0.
TierSelection ==
    (cpc = "written" /\ FromBuilt) =>
        LET n == Len(arg.payload)
        IN  /\ n = 125 =>
                /\ output[2] % 128 = 125
                /\ Len(output) = 2 + n
                /\ SubSeq(output, 3, Len(output)) = arg.payload
            /\ n = 126 =>
                /\ output[2] % 128 = FRAME_LEN_U16
                /\ SubSeq(output, 3, 4) = << 0, 126 >>
                /\ Len(output) = 4 + n
                /\ SubSeq(output, 5, Len(output)) = arg.payload
            /\ n = 65536 =>
                /\ output[2] % 128 = FRAME_LEN_U64
                /\ SubSeq(output, 3, 10) = << 0, 0, 0, 0, 0, 1, 0, 0 >>
                /\ Len(output) = 10 + n
                /\ SubSeq(output, 11, Len(output)) = arg.payload

TierSelectionWitness ==
    /\ cpc = "written" /\ FromBuilt
    /\ Len(arg.payload) = FRAME_LEN_U16
    /\ output[2] = FRAME_LEN_U16
    /\ Len(output) = 130

\* a peer's frame read from all of its bytes
PeerRead == cpc = "done" /\ arg.kind = "none" /\ sent # << >> /\ input.whole

\* C3: applying the mask twice with one key gives the payload back, byte i
\* being XORed with byte i mod 4 of the key; read returns the payload of a
\* masked frame with the mask removed and the payload of an unmasked frame as
\* it is on the wire.
MaskInvolution ==
    PeerRead =>
        LET s == sent[1]
            f == result.frame[1]
            n == Len(s.raw)
        IN  /\ result.ok
            /\ Len(f.payload) = n
            /\ s.masked =>
                /\ f.mask = s.key
                /\ \A i \in 1 .. n :
                     f.payload[i] = Xor(s.raw[i], s.key[((i - 1) % 4) + 1])
                /\ \A i \in 1 .. n : apply_mask(s.key, f.payload)[i] = s.raw[i]
            /\ ~ s.masked => f.mask = << >> /\ f.payload = s.raw
            /\ \A k \in PeerKeys :
                 \A i \in 1 .. n : apply_mask(k, apply_mask(k, s.raw))[i] = s.raw[i]

MaskInvolutionWitness ==
    /\ PeerRead
    /\ sent[1].masked
    /\ sent[1].key = << 55, 250, 33, 61 >>
    /\ Len(sent[1].raw) > 4
    /\ result.ok
    /\ result.frame[1].payload # sent[1].raw
    /\ result.frame[1].payload[5] = Xor(sent[1].raw[5], 55)

\* every byte of the frame that was encoded, whichever side encoded it
FullWire == IF sent # << >> /\ arg.kind = "none" THEN sent[1].wire ELSE output

\* C4: whatever frame is decoded from an encoded frame that arrives in chunks
\* is the frame decoded from its bytes in one piece; a first chunk is never
\* parsed on its own as a complete frame.
PartialReadReassembly ==
    (/\ cpc = "done"
     /\ arg.kind \in { "none", "str", "bytes" }
     /\ input.end = "wouldblock"
     /\ result.ok) =>
        /\ input.whole
        /\ result.frame = read(FullWire, "eof", 0).frame

RecognisedOpcodes ==
    { 0, OpTextFrame, OpBinaryFrame, OpConnectionClose, OpPing, OpPong }

\* C7: read never returns Ok with a frame whose opcode is not one of
\* Continuation, Text, Binary, Close, Ping, Pong.
UnknownOpcodeRejected ==
    (cpc = "done" /\ result.ok) =>
        result.frame[1].header.opcode \in RecognisedOpcodes

(***************************************************************************)
(* Properties of the event loop (Spec).                                    *)
(***************************************************************************)
Tokens == { assigned[i] : i \in 1 .. Len(assigned) }

\* C5: after the accepts that succeeded, the registry holds one entry for each
\* of them, under tokens that differ from one another and from the listening
\* token.
TokenAssignment ==
    /\ Cardinality(DOMAIN clients) = Len(assigned)
    /\ DOMAIN clients = Tokens
    /\ \A i, j \in 1 .. Len(assigned) : i # j => assigned[i] # assigned[j]
    /\ SERVER_TOKEN \notin DOMAIN clients

TokenAssignmentWitness ==
    /\ Len(assigned) = 2
    /\ Cardinality(DOMAIN clients) = 2
    /\ spc = "wait"

\* C6: a connection whose read ended on an irrecoverable error is out of the
\* registry once the callback has returned, and no token is given out twice.
TokenRemoval ==
    /\ \A t \in DOMAIN clients : spc = "wait" => clients[t].exit # "error"
    /\ \A i, j \in 1 .. Len(assigned) : i # j => assigned[i] # assigned[j]

\* C8: a client in the registry whose read has ended, on whichever path, is
\* armed again (or its event is already there to deliver): none is left
\* unarmed.
Rearmed ==
    \A t \in DOMAIN clients :
        (clients[t].exit # "none" /\ ~ (spc = "read" /\ cur = t)) =>
            t \in armed \cup events

\* C9: once the parser has reported the upgrade, the handshake response is
\* scheduled for write on the connection.
HandshakeOrdering ==
    \A t \in DOMAIN clients : clients[t].upgrade => Len(outbound[t]) > 0

\* C10: the upgrade once detected stays detected, and the bytes that a later
\* read takes from the socket are not given to the HTTP parser.
PhaseMonotone ==
    [][ \A t \in DOMAIN clients :
          clients[t].upgrade =>
              /\ clients'[t].upgrade
              /\ Len(sock'[t].inbound) < Len(sock[t].inbound) =>
                    clients'[t].parses = clients[t].parses ]_vars

\* C11: the callback in which try_read returned an error other than
\* would-block takes the connection out of the registry and does not arm its
\* read interest again, and leaves every other connection as it was.
FatalReadError ==
    [][ (spc = "read" /\ sock[cur].status = "error" /\ spc' = "wait") =>
            /\ cur \notin DOMAIN clients'
            /\ cur \notin armed' \cup events'
            /\ \A t \in DOMAIN clients \ { cur } :
                 /\ t \in DOMAIN clients'
                 /\ clients'[t] = clients[t]
                 /\ (t \in armed') = (t \in armed) ]_vars

NoFatalPath == spc # "panic"

\* C14: a callback for the listening token in which accept takes no connection
\* and which returns leaves the registry, the token counter and the
\* registrations as they were, and the loop and the listener ready for the
\* events that follow; with a connection waiting, accept can only have failed,
\* and then the callback does return.
AcceptErrorNoEffect ==
    [][ (/\ spc = "wait"
         /\ SERVER_TOKEN \in events
         /\ SERVER_TOKEN \notin events'
         /\ pending' = pending
         /\ pending > 0 \/ spc' = "wait") =>
            /\ spc' = "wait"
            /\ clients' = clients
            /\ token_counter' = token_counter
            /\ assigned' = assigned
            /\ registered' = registered
            /\ armed' = armed
            /\ SERVER_TOKEN \in armed'
            /\ events' = events \ { SERVER_TOKEN } ]_vars

AcceptErrorNoEffectWitness ==
    /\ spc = "wait"
    /\ arrivals = 1
    /\ pending = 1
    /\ SERVER_TOKEN \notin events
    /\ token_counter = 1
    /\ clients = Empty
    /\ registered = { SERVER_TOKEN }

\* the bytes a frame takes on the wire: the two header bytes, the extended
\* length its 7-bit field announces, the mask key if it is masked, the payload
FrameBytes(f) ==
    2 + (IF f.header.payload_length = FRAME_LEN_U16 THEN 2
         ELSE IF f.header.payload_length = FRAME_LEN_U64 THEN 8 ELSE 0)
      + (IF f.header.masked THEN 4 ELSE 0)
      + Len(f.payload)

\* C15: read returns Ok only with a frame all of whose bytes were in the
\* input: an input that ends before the header, the extended length, the mask
\* key or the announced payload is complete gives an error, never a frame
\* with a payload or a key filled up with bytes that were not read.
TruncatedInputReported ==
    (cpc = "done" /\ result.ok) =>
        FrameBytes(result.frame[1]) <= Len(input.data)

\* the extension bytes behind the two header bytes of an encoded frame, and the
\* payload length that the encoded frame announces
WireExtension(bytes) ==
    LET field == bytes[2] % 128
    IN  IF field = FRAME_LEN_U16 THEN 2 ELSE IF field = FRAME_LEN_U64 THEN 8 ELSE 0

WireLength(bytes) ==
    IF WireExtension(bytes) = 0 THEN bytes[2] % 128
    ELSE BEValue(SubSeq(bytes, 3, 2 + WireExtension(bytes)))

\* the frame that write was given last
Written == cpc = "written"

\* C16: the length that write encodes is the number of payload bytes it
\* writes, which is the length of the frame's payload, also when the payload
\* field was replaced after the frame was built; and a frame that read returns
\* has as many payload bytes as read took from the input for it.
FrameLength ==
    /\ Written =>
        /\ WireLength(output) = Len(frame[1].payload)
        /\ Len(output) = 2 + WireExtension(output) + Len(frame[1].payload)
    /\ (cpc = "done" /\ result.ok) =>
        FrameBytes(result.frame[1]) = result.consumed

\* C17: what write emits for a frame built by From or returned by read (whose
\* header may say masked) has the mask bit 0 and no key, and is a frame that
\* read decodes from these bytes with the payload that was written.
OutboundUnmasked ==
    (Written /\ arg.kind \in { "str", "bytes", "read" }) =>
        /\ output[2] < 128
        /\ LET r == read(output, "eof", 0)
           IN  /\ r.ok
               /\ r.consumed = Len(output)
               /\ r.frame[1].payload = frame[1].payload

(***************************************************************************)
(* The event loop under fairness: the thread that runs ready and the read  *)
(* loop of WebSocketClient::read keeps running, the peers and the network  *)
(* are free to do nothing.                                                 *)
(***************************************************************************)
ServerStep ==
    \/ AcceptError
    \/ AcceptNone
    \/ AcceptReady
    \/ \E t \in events : ClientReady(t)
    \/ ReadErr
    \/ ReadData
    \/ ReadEof
    \/ ReadWouldBlock

FairSpec == Init /\ [][Next]_vars /\ WF_vars(ServerStep)

\* C18: a call of WebSocketClient::read returns, whatever try_read gives it:
\* data, would-block, an error or a read of zero bytes.
ReadReturns == (spc = "read") ~> (spc # "read")

\* C19: the read that takes the bytes of a Close frame from a connection past
\* its upgrade schedules the echo of the Close on that connection, and when
\* its callback has returned the connection is out of the registry and its
\* token is neither armed nor waiting for dispatch.
CloseHandling ==
    [][ \A t \in DOMAIN clients :
          (/\ spc = "read" /\ cur = t
           /\ clients[t].upgrade
           /\ sock[t].status # "error"
           /\ Len(sock[t].inbound) > 0
           /\ Head(sock[t].inbound) = "close"
           /\ sock'[t].inbound = Tail(sock[t].inbound)
           /\ spc' = "wait") =>
              /\ Len(outbound'[t]) > 0
              /\ t \notin DOMAIN clients'
              /\ t \notin armed' \cup events' ]_vars

\* C20: every connection that waits at the listener is accepted in the end,
\* also when several arrived before their one readiness event was handled and
\* none arrives later: the callback that accepts does not return to the loop
\* with a connection still waiting and no event of the listener left to
\* deliver, for without a new arrival the edge-triggered listener produces none.
AcceptDrains ==
    [][ (/\ spc = "wait"
         /\ Len(assigned') > Len(assigned)
         /\ spc' = "wait") =>
            (pending' = 0 \/ SERVER_TOKEN \in events') ]_vars

====
